---- MODULE Spec2Model ----
(***************************************************************************)
(* The score tracker of src/src/components/hero.tsx: one React component   *)
(* (App) holding six state hooks, a load effect, a persist effect, a       *)
(* totals memo with its write-back effect, and the click/change handlers.  *)
(*                                                                         *)
(* Rendering model.  The state variables hold the hooks' latest values:    *)
(* queued updates are applied in the order they were queued.  `view` is    *)
(* what the last committed render saw; handlers and effects are closures   *)
(* over it, and `totals` is the memo of that render.  A handler, the       *)
(* render of its updates (lane "sync") and the effects of that render run  *)
(* within one event.  Updates made by an effect are rendered later (lane   *)
(* "default"), so an event can come before that render and before its      *)
(* effects.  The effects of a commit run together, in declaration order,   *)
(* and before the next render.  A new array is a changed dependency even   *)
(* when its contents are the same (playersChanged, turnsChanged).          *)
(*                                                                         *)
(* Environment.  Controls are used as rendered (a control exists in the    *)
(* stage that shows it, Undo is disabled on an empty log) and only after   *)
(* the render that follows the mount effects.  The page can be loaded      *)
(* again between events.  Math.random and Date.now are choices from small  *)
(* sets, so two calls of uid can return the same id.                       *)
(*                                                                         *)
(* Specifications.  Spec is the page used through its controls; SpecFair   *)
(* adds that React runs what it has scheduled.  SpecRoster is setup and    *)
(* naming with the whole slider, SpecLoad the startup on any stored item,  *)
(* SpecUndo the handlers with undoLast called on any log, and SpecBurst a  *)
(* second Add Turn click that arrives before the render of the first.      *)
(***************************************************************************)
EXTENDS Integers, Sequences, FiniteSets, TLC

\* ------------------------------------------------------------- bounds
MaxTurns == 2
MaxCount == 3

\* ------------------------------------------------ constants of the code
MinPlayers == 2
MaxPlayers == 8
DefaultPlayerCount == 2
NaN == -1000000

EMOJIS ==
  << "lion", "octopus", "unicorn", "rocket", "fire", "cactus", "pizza", "target",
     "die", "crown", "brain", "bolt", "rainbow", "panda", "penguin", "robot" >>

\* What Math.random().toString(36).slice(2, 9) may return.
RandomSuffixes == {"a", "b"}

uid(p) == {p \o s : s \in RandomSuffixes}

\* What Date.now() may return.
Clock == {1}

\* Texts typed into the points field, as sequences of characters.
InputTexts == { <<"a", "b", "c">>, <<"7">> }

\* Names typed into a player's name field, and avatars picked.
InputNames == {"Ann"}
InputEmojis == {EMOJIS[16]}

\* The roster cards whose name field and avatar buttons are used.
EditedCards == {1}

PlayerCounts == MinPlayers .. (IF MaxCount < MaxPlayers THEN MaxCount ELSE MaxPlayers)

VARIABLES
  stage, playerCount, players, turns, currentPoints, currentPlayerIndex,
  view, totals, slot, pending, flush, lane, playersChanged, turnsChanged, startup,
  fired, addedFrom, resetDone

hooks == <<stage, playerCount, players, turns, currentPoints, currentPlayerIndex>>
vars == <<stage, playerCount, players, turns, currentPoints, currentPlayerIndex,
          view, totals, slot, pending, flush, lane, playersChanged, turnsChanged,
          startup, fired, addedFrom, resetDone>>

\* ------------------------------------------------------ JavaScript values
\* a % b of JavaScript: NaN for a zero divisor, the sign of the dividend.
JsRem(a, b) ==
  IF a = NaN \/ b = NaN \/ b = 0 THEN NaN
  ELSE LET m == IF b < 0 THEN -b ELSE b
       IN IF a >= 0 THEN a % m ELSE -((-a) % m)

JsAdd(a, b) == IF a = NaN \/ b = NaN THEN NaN ELSE a + b

Digits == {"0", "1", "2", "3", "4", "5", "6", "7", "8", "9"}
DigitValue(c) ==
  CASE c = "0" -> 0 [] c = "1" -> 1 [] c = "2" -> 2 [] c = "3" -> 3 [] c = "4" -> 4
    [] c = "5" -> 5 [] c = "6" -> 6 [] c = "7" -> 7 [] c = "8" -> 8 [] c = "9" -> 9

RECURSIVE TrimLeft(_)
TrimLeft(s) == IF s # <<>> /\ Head(s) = " " THEN TrimLeft(Tail(s)) ELSE s

RECURSIVE TrimRight(_)
TrimRight(s) ==
  IF s # <<>> /\ s[Len(s)] = " " THEN TrimRight(SubSeq(s, 1, Len(s) - 1)) ELSE s

RECURSIVE DecimalValue(_, _)
DecimalValue(s, acc) ==
  IF s = <<>> THEN acc
  ELSE IF Head(s) \in Digits THEN DecimalValue(Tail(s), 10 * acc + DigitValue(Head(s)))
  ELSE NaN

\* Number(text) for texts of spaces, a sign and decimal digits: surrounding
\* white space is dropped, the empty text is 0, anything else is NaN.
Number(text) ==
  LET t == TrimRight(TrimLeft(text))
  IN IF t = <<>> THEN 0
     ELSE IF Head(t) = "-"
          THEN IF Len(t) = 1 THEN NaN
               ELSE LET v == DecimalValue(Tail(t), 0) IN IF v = NaN THEN NaN ELSE -v
     ELSE IF Head(t) = "+"
          THEN IF Len(t) = 1 THEN NaN ELSE DecimalValue(Tail(t), 0)
     ELSE DecimalValue(t, 0)

IsFinite(n) == n # NaN

\* ------------------------------------------------------------ totals memo
Put(map, k, v) == [x \in (DOMAIN map) \cup {k} |-> IF x = k THEN v ELSE map[x]]

\* map[k] || 0
GetOrZero(map, k) == IF k \in DOMAIN map /\ map[k] # NaN THEN map[k] ELSE 0

RECURSIVE ZeroAll(_, _)
ZeroAll(ps, map) ==
  IF ps = <<>> THEN map ELSE ZeroAll(Tail(ps), Put(map, Head(ps).id, 0))

\* A fold that stores a turn's points instead of adding them.
RECURSIVE AddAllOverwriting(_, _)
AddAllOverwriting(ts, map) ==
  IF ts = <<>> THEN map
  ELSE AddAllOverwriting(Tail(ts), Put(map, Head(ts).playerId, Head(ts).points))

RECURSIVE AddAll(_, _)
AddAll(ts, map) ==
  IF ts = <<>> THEN map
  ELSE AddAll(Tail(ts),
              Put(map, Head(ts).playerId, GetOrZero(map, Head(ts).playerId) + Head(ts).points))

ComputeTotals(ps, ts) == AddAll(ts, ZeroAll(ps, <<>>))

\* totals[p.id] ?? 0, the number the Totals panel shows for player p.
ShownTotal(p) == IF p.id \in DOMAIN totals THEN totals[p.id] ELSE 0

\* prev.map(p => ({ ...p, total: totals[p.id] || 0 }))
WithTotals(prev, map) ==
  [i \in 1 .. Len(prev) |-> [prev[i] EXCEPT !.total = GetOrZero(map, prev[i].id)]]

\* ------------------------------------------------------------ persistence
NoBlob == [json |-> "none"]
\* A text that JSON.parse rejects.
Unparsable == [json |-> "invalid"]
JUndefined == [json |-> "undefined"]
JNull == [json |-> "null"]
JNum(n) == IF n = NaN THEN JNull ELSE [json |-> "number", num |-> n]
JStr(s) == [json |-> "string", str |-> s]
JArr(items) == [json |-> "array", items |-> items]
JObj(fields) == [json |-> "object", obj |-> fields]

PlayerToJson(p) ==
  JObj([id |-> JStr(p.id), name |-> JStr(p.name), emoji |-> JStr(p.emoji),
        total |-> JNum(p.total)])
TurnToJson(t) ==
  JObj([id |-> JStr(t.id), playerId |-> JStr(t.playerId), points |-> JNum(t.points),
        timestamp |-> JNum(t.timestamp)])

\* A snapshot that leaves currentPlayerIndex out.
StringifyWithoutIndex(v) ==
  JObj([players |-> JArr([i \in 1 .. Len(v.players) |-> PlayerToJson(v.players[i])]),
        turns |-> JArr([i \in 1 .. Len(v.turns) |-> TurnToJson(v.turns[i])]),
        stage |-> JStr(v.stage),
        playerCount |-> JNum(v.playerCount)])

\* JSON.stringify({ players, turns, stage, playerCount, currentPlayerIndex })
Stringify(v) ==
  JObj([players |-> JArr([i \in 1 .. Len(v.players) |-> PlayerToJson(v.players[i])]),
        turns |-> JArr([i \in 1 .. Len(v.turns) |-> TurnToJson(v.turns[i])]),
        stage |-> JStr(v.stage),
        playerCount |-> JNum(v.playerCount),
        currentPlayerIndex |-> JNum(v.currentPlayerIndex)])

Field(j, k) == IF j.json = "object" /\ k \in DOMAIN j.obj THEN j.obj[k] ELSE JUndefined

\* The test of `??`: only undefined and null give the default.
FalsyNullish(j) == j.json \in {"undefined", "null"}

Falsy(j) ==
  \/ j.json \in {"undefined", "null"}
  \/ j.json = "number" /\ j.num = 0
  \/ j.json = "string" /\ j.str = ""

\* The JavaScript value of a parsed number or string.
Scalar(j) ==
  CASE j.json = "number" -> j.num
    [] j.json = "string" -> j.str
    [] OTHER -> NaN

PlayerFromJson(j) ==
  [id |-> Scalar(Field(j, "id")), name |-> Scalar(Field(j, "name")),
   emoji |-> Scalar(Field(j, "emoji")), total |-> Scalar(Field(j, "total"))]
TurnFromJson(j) ==
  [id |-> Scalar(Field(j, "id")), playerId |-> Scalar(Field(j, "playerId")),
   points |-> Scalar(Field(j, "points")), timestamp |-> Scalar(Field(j, "timestamp"))]

\* JSON.parse(raw) followed by the five `data.x || default` of the load effect.
Loaded(raw) ==
  [players |-> IF Falsy(Field(raw, "players")) THEN <<>>
               ELSE [i \in 1 .. Len(Field(raw, "players").items) |->
                       PlayerFromJson(Field(raw, "players").items[i])],
   turns |-> IF Falsy(Field(raw, "turns")) THEN <<>>
             ELSE [i \in 1 .. Len(Field(raw, "turns").items) |->
                     TurnFromJson(Field(raw, "turns").items[i])],
   stage |-> IF Falsy(Field(raw, "stage")) THEN "setup" ELSE Scalar(Field(raw, "stage")),
   playerCount |-> IF Falsy(Field(raw, "playerCount")) THEN DefaultPlayerCount
                   ELSE Scalar(Field(raw, "playerCount")),
   currentPlayerIndex |-> IF Falsy(Field(raw, "currentPlayerIndex")) THEN 0
                          ELSE Scalar(Field(raw, "currentPlayerIndex"))]

\* ------------------------------------------------------------------ state
Snapshot ==
  [stage |-> stage, playerCount |-> playerCount, players |-> players, turns |-> turns,
   currentPoints |-> currentPoints, currentPlayerIndex |-> currentPlayerIndex]

InitialView ==
  [stage |-> "setup", playerCount |-> DefaultPlayerCount, players |-> <<>>, turns |-> <<>>,
   currentPoints |-> <<>>, currentPlayerIndex |-> 0]

\* The component after its first render: the three effects are still to run.
Init ==
  /\ stage = "setup"
  /\ playerCount = DefaultPlayerCount
  /\ players = <<>>
  /\ turns = <<>>
  /\ currentPoints = <<>>
  /\ currentPlayerIndex = 0
  /\ view = InitialView
  /\ totals = ComputeTotals(<<>>, <<>>)
  /\ pending = {"load", "persist", "sync"}
  /\ flush = "deferred"
  /\ lane = "none"
  /\ playersChanged = FALSE
  /\ turnsChanged = FALSE
  /\ startup = TRUE
  /\ fired = "none"
  /\ addedFrom = <<>>
  /\ resetDone = FALSE
  /\ slot = NoBlob

\* What the slot may hold when the page is opened: nothing a JSON parser
\* accepts, a JSON value that is no object, or an object in which each of the
\* five fields is missing, falsy, or a value of the field's type.
StoredPlayers ==
  { JUndefined, JNull, JArr(<<>>),
    JArr(<<PlayerToJson([id |-> "p_a", name |-> "Ann", emoji |-> EMOJIS[1], total |-> 7])>>) }
StoredTurns ==
  { JUndefined, JArr(<<>>),
    JArr(<<TurnToJson([id |-> "t_a", playerId |-> "p_a", points |-> 7, timestamp |-> 1])>>) }
StoredStages == { JUndefined, JStr(""), JStr("naming"), JStr("play") }
StoredCounts == { JUndefined, JNum(0), JNum(3) }
StoredIndexes == { JUndefined, JNum(0), JNum(1) }

StoredObject(p, t, s, n, i) ==
  LET all == [players |-> p, turns |-> t, stage |-> s, playerCount |-> n,
              currentPlayerIndex |-> i]
  IN JObj([k \in {x \in DOMAIN all : all[x] # JUndefined} |-> all[k]])

StoredBlobs ==
  { Unparsable, JNull, JNum(5) }
  \cup { StoredObject(p, t, s, n, i) :
           p \in StoredPlayers, t \in StoredTurns, s \in StoredStages,
           n \in StoredCounts, i \in StoredIndexes }

\* The component after its first render, opened on an arbitrary stored item.
InitLoad ==
  /\ stage = "setup"
  /\ playerCount = DefaultPlayerCount
  /\ players = <<>>
  /\ turns = <<>>
  /\ currentPoints = <<>>
  /\ currentPlayerIndex = 0
  /\ view = InitialView
  /\ totals = ComputeTotals(<<>>, <<>>)
  /\ pending = {"load", "persist", "sync"}
  /\ flush = "deferred"
  /\ lane = "none"
  /\ playersChanged = FALSE
  /\ turnsChanged = FALSE
  /\ startup = TRUE
  /\ fired = "none"
  /\ addedFrom = <<>>
  /\ resetDone = FALSE
  /\ slot \in StoredBlobs

\* --------------------------------------------------------------- renders
FromEffect == IF lane = "none" THEN "default" ELSE lane

\* A re-render and its commit: the closures are renewed, the memo is
\* recomputed when players or turns is a new array, and the effects whose
\* dependencies changed are scheduled.
Render ==
  /\ lane # "none"
  /\ pending = {}
  /\ view' = Snapshot
  /\ totals' = IF playersChanged \/ turnsChanged THEN ComputeTotals(players, turns)
               ELSE totals
  /\ pending' =
       (IF \/ playersChanged \/ turnsChanged
           \/ stage # view.stage
           \/ playerCount # view.playerCount
           \/ currentPlayerIndex # view.currentPlayerIndex
        THEN {"persist"} ELSE {})
       \cup (IF playersChanged \/ turnsChanged THEN {"sync"} ELSE {})
  /\ flush' = IF lane = "sync" THEN "sync" ELSE "deferred"
  /\ lane' = "none"
  /\ playersChanged' = FALSE
  /\ turnsChanged' = FALSE
  /\ startup' = FALSE
  /\ fired' = "none"
  /\ addedFrom' = IF fired = "undoLast" THEN <<>> ELSE addedFrom
  /\ UNCHANGED <<hooks, slot, resetDone>>

\* --------------------------------------------------------------- effects
\* The passive effects of a commit run together, in declaration order, each
\* over the values of the render that scheduled it.

\* load: what the five setters are given, or the hooks as they are when the
\* slot holds nothing.
\* getItem gives a text, JSON.parse accepts it, and reading a property of the
\* parsed value does not throw (null has no properties).
LoadApplies(raw) == raw # NoBlob /\ raw.json \notin {"invalid", "null"}

Loads == "load" \in pending /\ LoadApplies(slot)

LoadEffect(h) ==
  IF Loads
  THEN [h EXCEPT !.players = Loaded(slot).players,
                 !.turns = Loaded(slot).turns,
                 !.stage = Loaded(slot).stage,
                 !.playerCount = Loaded(slot).playerCount,
                 !.currentPlayerIndex = Loaded(slot).currentPlayerIndex]
  ELSE h

\* persist: the item written under STORAGE_KEY.
PersistEffect == Stringify(view)

\* total-sync: setPlayers(prev => prev.map(...)) over the memo of the render.
SyncTotalsEffect(h) ==
  IF "sync" \in pending THEN [h EXCEPT !.players = WithTotals(h.players, totals)] ELSE h

FlushEffects ==
  /\ pending # {}
  /\ LET h == SyncTotalsEffect(LoadEffect(Snapshot))
     IN /\ players' = h.players
        /\ turns' = h.turns
        /\ stage' = h.stage
        /\ playerCount' = h.playerCount
        /\ currentPlayerIndex' = h.currentPlayerIndex
  /\ slot' = IF "persist" \in pending THEN PersistEffect ELSE slot
  /\ playersChanged' = (playersChanged \/ Loads \/ "sync" \in pending)
  /\ turnsChanged' = (turnsChanged \/ Loads)
  /\ lane' = IF Loads \/ "sync" \in pending THEN FromEffect ELSE lane
  /\ pending' = {}
  /\ UNCHANGED <<currentPoints, view, totals, flush, startup, fired, addedFrom, resetDone>>

\* -------------------------------------------------------------- handlers
\* A handler, the render of its updates and the effects of that render run
\* within one event; the next event is taken when that is over.  Effects of
\* a render that an effect caused may still be waiting then.
Idle == lane # "sync" /\ (pending = {} \/ flush = "deferred")

\* The controls are used once the startup load has been rendered.
Interactive == ~startup /\ Idle

\* Three observers record what the handlers did: `fired` names the handler
\* whose updates await their render, `addedFrom` keeps the log and index an
\* addTurn started from until another handler than undoLast runs, and
\* `resetDone` holds from a resetAll until the next handler.
Fired(op) ==
  /\ lane' = "sync"
  /\ fired' = op
  /\ resetDone' = (op = "resetAll")
  /\ UNCHANGED <<view, totals, pending, flush, startup>>

Forgets == addedFrom' = <<>>

\* A roster whose avatars start at the second palette entry.
NewPlayersShifted(count, ids) ==
  [i \in 1 .. count |->
     [id |-> ids[i],
      name |-> "Player " \o ToString(i),
      emoji |-> EMOJIS[(i % Len(EMOJIS)) + 1],
      total |-> 0]]

NewPlayers(count, ids) ==
  [i \in 1 .. count |->
     [id |-> ids[i],
      name |-> "Player " \o ToString(i),
      emoji |-> EMOJIS[((i - 1) % Len(EMOJIS)) + 1],
      total |-> 0]]

setPlayerCount(n) ==
  /\ Interactive
  /\ view.stage = "setup"
  /\ playerCount' = n
  /\ Fired("setPlayerCount")
  /\ Forgets
  /\ UNCHANGED <<stage, players, turns, currentPoints, currentPlayerIndex, slot,
                 playersChanged, turnsChanged>>

setupReset ==
  /\ Interactive
  /\ view.stage = "setup"
  /\ playerCount' = DefaultPlayerCount
  /\ stage' = "setup"
  /\ Fired("setupReset")
  /\ Forgets
  /\ UNCHANGED <<players, turns, currentPoints, currentPlayerIndex, slot,
                 playersChanged, turnsChanged>>

beginNaming ==
  /\ Interactive
  /\ view.stage = "setup"
  /\ \E ids \in [1 .. view.playerCount -> uid("p_")] :
       players' = NewPlayers(view.playerCount, ids)
  /\ playersChanged' = TRUE
  /\ stage' = "naming"
  /\ Fired("beginNaming")
  /\ Forgets
  /\ UNCHANGED <<playerCount, turns, currentPoints, currentPlayerIndex, slot, turnsChanged>>

startPlaying ==
  /\ Interactive
  /\ view.stage = "naming"
  /\ turns' = <<>>
  /\ turnsChanged' = TRUE
  /\ currentPlayerIndex' = 0
  /\ currentPoints' = <<>>
  /\ stage' = "play"
  /\ Fired("startPlaying")
  /\ Forgets
  /\ UNCHANGED <<playerCount, players, slot, playersChanged>>

\* A Back button that goes on to play.
backToPlay ==
  /\ Interactive
  /\ view.stage = "naming"
  /\ stage' = "play"
  /\ Fired("backToSetup")
  /\ Forgets
  /\ UNCHANGED <<playerCount, players, turns, currentPoints, currentPlayerIndex, slot,
                 playersChanged, turnsChanged>>

backToSetup ==
  /\ Interactive
  /\ view.stage = "naming"
  /\ stage' = "setup"
  /\ Fired("backToSetup")
  /\ Forgets
  /\ UNCHANGED <<playerCount, players, turns, currentPoints, currentPlayerIndex, slot,
                 playersChanged, turnsChanged>>

updatePlayerName(id, val) ==
  /\ Interactive
  /\ view.stage = "naming"
  /\ players' = [i \in 1 .. Len(players) |->
                   IF players[i].id = id THEN [players[i] EXCEPT !.name = val]
                   ELSE players[i]]
  /\ playersChanged' = TRUE
  /\ Fired("updatePlayerName")
  /\ Forgets
  /\ UNCHANGED <<stage, playerCount, turns, currentPoints, currentPlayerIndex, slot,
                 turnsChanged>>

updatePlayerEmoji(id, emoji) ==
  /\ Interactive
  /\ view.stage = "naming"
  /\ players' = [i \in 1 .. Len(players) |->
                   IF players[i].id = id THEN [players[i] EXCEPT !.emoji = emoji]
                   ELSE players[i]]
  /\ playersChanged' = TRUE
  /\ Fired("updatePlayerEmoji")
  /\ Forgets
  /\ UNCHANGED <<stage, playerCount, turns, currentPoints, currentPlayerIndex, slot,
                 turnsChanged>>

setCurrentPoints(text) ==
  /\ Interactive
  /\ view.stage = "play"
  /\ currentPoints' = text
  /\ Fired("setCurrentPoints")
  /\ Forgets
  /\ UNCHANGED <<stage, playerCount, players, turns, currentPlayerIndex, slot,
                 playersChanged, turnsChanged>>

\* An addTurn without the check of the parsed number.
AddTurnActsUnchecked ==
  /\ Len(view.players) # 0
  /\ view.currentPlayerIndex \in 0 .. Len(view.players) - 1

\* addTurn returns early on a non-finite number and on an empty roster, and
\* throws before any update when players[currentPlayerIndex] is undefined.
AddTurnActs ==
  /\ IsFinite(Number(view.currentPoints))
  /\ Len(view.players) # 0
  /\ view.currentPlayerIndex \in 0 .. Len(view.players) - 1

\* A turn that is always credited to the first player.
NewTurnForFirst(id, now) ==
  [id |-> id,
   playerId |-> view.players[1].id,
   points |-> Number(view.currentPoints),
   timestamp |-> now]

NewTurn(id, now) ==
  [id |-> id,
   playerId |-> view.players[view.currentPlayerIndex + 1].id,
   points |-> Number(view.currentPoints),
   timestamp |-> now]

\* An advance without the wrap.
AfterAddNoWrap(i) == JsAdd(i, 1)

AfterAdd(i) == JsRem(JsAdd(i, 1), Len(view.players))

\* The handler over the closure of the last render.
addTurnCall ==
  /\ IF AddTurnActs
     THEN /\ Len(turns) < MaxTurns
          /\ \E id \in uid("t_"), now \in Clock : turns' = Append(turns, NewTurn(id, now))
          /\ turnsChanged' = TRUE
          /\ currentPoints' = <<>>
          /\ currentPlayerIndex' = AfterAdd(currentPlayerIndex)
          /\ addedFrom' = <<[turns |-> turns, index |-> currentPlayerIndex]>>
     ELSE /\ UNCHANGED <<turns, turnsChanged, currentPoints, currentPlayerIndex>>
          /\ Forgets
  /\ Fired("addTurn")
  /\ UNCHANGED <<stage, playerCount, players, slot, playersChanged>>

addTurn ==
  /\ Interactive
  /\ view.stage = "play"
  /\ addTurnCall

\* A second click on Add Turn dispatched in the task of the first: the
\* render of the first call's updates has not run, so the handler is the
\* closure the first call was.
addTurnBatched ==
  /\ ~startup
  /\ lane = "sync"
  /\ fired = "addTurn"
  /\ view.stage = "play"
  /\ addTurnCall

\* t.slice(0, -1)
DropLast(t) == SubSeq(t, 1, Len(t) - 1)

\* A step back that takes the remainder of i - 1.
AfterUndoNoWrap(i) == JsRem(JsAdd(i, -1), Len(view.players))

AfterUndo(i) == JsRem(JsAdd(JsAdd(i, -1), Len(view.players)), Len(view.players))

\* An undo that returns when there is nothing to undo.
undoLastChecked ==
  /\ IF Len(turns) = 0
     THEN UNCHANGED <<turns, turnsChanged, currentPlayerIndex>>
     ELSE /\ turns' = DropLast(turns)
          /\ turnsChanged' = TRUE
          /\ currentPlayerIndex' = AfterUndo(currentPlayerIndex)
  /\ Fired("undoLast")
  /\ UNCHANGED addedFrom
  /\ UNCHANGED <<stage, playerCount, players, currentPoints, slot, playersChanged>>

\* The handler: it does not look at the log.
undoLastCall ==
  /\ turns' = DropLast(turns)
  /\ turnsChanged' = TRUE
  /\ currentPlayerIndex' = AfterUndo(currentPlayerIndex)
  /\ Fired("undoLast")
  /\ UNCHANGED addedFrom
  /\ UNCHANGED <<stage, playerCount, players, currentPoints, slot, playersChanged>>

\* The Undo button, disabled while the rendered log is empty.
undoLast ==
  /\ Interactive
  /\ view.stage = "play"
  /\ Len(view.turns) # 0
  /\ undoLastCall

\* The handler called whatever the log holds.
undoLastAlways ==
  /\ Interactive
  /\ view.stage = "play"
  /\ undoLastCall

\* A reset that leaves playerCount as it is.
resetAllKeepsCount ==
  /\ Interactive
  /\ view.stage = "play"
  /\ players' = <<>>
  /\ playersChanged' = TRUE
  /\ turns' = <<>>
  /\ turnsChanged' = TRUE
  /\ stage' = "setup"
  /\ currentPoints' = <<>>
  /\ currentPlayerIndex' = 0
  /\ slot' = NoBlob
  /\ Fired("resetAll")
  /\ Forgets
  /\ UNCHANGED playerCount

resetAll ==
  /\ Interactive
  /\ view.stage = "play"
  /\ players' = <<>>
  /\ playersChanged' = TRUE
  /\ turns' = <<>>
  /\ turnsChanged' = TRUE
  /\ stage' = "setup"
  /\ playerCount' = DefaultPlayerCount
  /\ currentPoints' = <<>>
  /\ currentPlayerIndex' = 0
  /\ slot' = NoBlob
  /\ Fired("resetAll")
  /\ Forgets

\* The page is loaded again: the component is mounted afresh, the slot stays.
Reload ==
  /\ Idle
  /\ stage' = "setup"
  /\ playerCount' = DefaultPlayerCount
  /\ players' = <<>>
  /\ turns' = <<>>
  /\ currentPoints' = <<>>
  /\ currentPlayerIndex' = 0
  /\ view' = InitialView
  /\ totals' = ComputeTotals(<<>>, <<>>)
  /\ pending' = {"load", "persist", "sync"}
  /\ flush' = "deferred"
  /\ lane' = "none"
  /\ playersChanged' = FALSE
  /\ turnsChanged' = FALSE
  /\ startup' = TRUE
  /\ fired' = "none"
  /\ addedFrom' = <<>>
  /\ UNCHANGED <<slot, resetDone>>

Next ==
  \/ Render
  \/ FlushEffects
  \/ \E n \in PlayerCounts : setPlayerCount(n)
  \/ setupReset
  \/ beginNaming
  \/ startPlaying
  \/ backToSetup
  \/ \E i \in EditedCards \cap (1 .. Len(view.players)), val \in InputNames :
       updatePlayerName(view.players[i].id, val)
  \/ \E i \in EditedCards \cap (1 .. Len(view.players)), e \in InputEmojis :
       updatePlayerEmoji(view.players[i].id, e)
  \/ \E text \in InputTexts : setCurrentPoints(text)
  \/ addTurn
  \/ undoLast
  \/ resetAll
  \/ Reload

Spec == Init /\ [][Next]_vars

\* React runs a scheduled render and the effects of a commit without waiting
\* for the user.
SpecFair == Spec /\ WF_vars(Render) /\ WF_vars(FlushEffects)

\* Setup and naming alone, with every position of the player-count slider.
NextRoster ==
  \/ Render
  \/ FlushEffects
  \/ \E n \in MinPlayers .. MaxPlayers : setPlayerCount(n)
  \/ setupReset
  \/ beginNaming
  \/ backToSetup

SpecRoster == Init /\ [][NextRoster]_vars

\* Startup alone, on every stored item.
NextLoad ==
  \/ Render
  \/ FlushEffects

SpecLoad == InitLoad /\ [][NextLoad]_vars

\* Play with clicks on Add Turn that arrive in one task.
NextBurst ==
  \/ Render
  \/ FlushEffects
  \/ beginNaming
  \/ startPlaying
  \/ \E text \in InputTexts : setCurrentPoints(text)
  \/ addTurn
  \/ addTurnBatched

SpecBurst == Init /\ [][NextBurst]_vars

\* The handlers of setup, naming and play, with undoLast called on any log.
NextUndo ==
  \/ Render
  \/ FlushEffects
  \/ \E n \in PlayerCounts : setPlayerCount(n)
  \/ beginNaming
  \/ startPlaying
  \/ \E text \in InputTexts : setCurrentPoints(text)
  \/ addTurn
  \/ undoLastAlways

SpecUndo == Init /\ [][NextUndo]_vars

\* ================================================================ claims
RECURSIVE SumPoints(_, _)
\* The sum of the points of the turns of ts that reference player id.
SumPoints(ts, id) ==
  IF ts = <<>> THEN 0
  ELSE (IF Head(ts).playerId = id THEN Head(ts).points ELSE 0) + SumPoints(Tail(ts), id)

\* C1: in stage play the total shown for each roster player is the sum of the
\* points of exactly the turns of the log that reference that player's id.
C1_ShownTotals ==
  view.stage = "play" =>
    \A i \in 1 .. Len(view.players) :
      ShownTotal(view.players[i]) = SumPoints(view.turns, view.players[i].id)

\* Two players with different ids have one turn of 7 points each, and each is
\* shown 7.
C1_Witness ==
  /\ view.stage = "play"
  /\ Len(view.turns) = 2
  /\ view.turns[1].playerId # view.turns[2].playerId
  /\ view.turns[1].points = 7
  /\ view.turns[2].points = 7
  /\ ShownTotal(view.players[1]) = 7
  /\ ShownTotal(view.players[2]) = 7

\* C2: an addTurn that recorded a turn, followed immediately by undoLast,
\* leaves the log and the current index as they were before the addTurn.
C2_AddUndoRestores ==
  (fired = "undoLast" /\ addedFrom # <<>>) =>
    /\ turns = addedFrom[1].turns
    /\ currentPlayerIndex = addedFrom[1].index

\* The undo has run after an add that started from a non-empty log with the
\* last player to move, so the index wrapped forward and back.
C2_Witness ==
  /\ fired = "undoLast"
  /\ addedFrom # <<>>
  /\ Len(addedFrom[1].turns) = 1
  /\ addedFrom[1].index = Len(players) - 1
  /\ stage = "play"

\* C3: whenever the roster is non-empty the current index is an index of it.
C3_IndexInRoster ==
  Len(players) > 0 => currentPlayerIndex \in 0 .. Len(players) - 1

\* An addTurn has wrapped the index of a full round back to the first player.
C3_Witness ==
  /\ fired = "addTurn"
  /\ stage = "play"
  /\ Len(turns) = Len(players)
  /\ currentPlayerIndex = 0

\* C4: addTurn with pending input that is no finite number changes neither
\* the log, the index, the stage, the roster nor the pending input.
C4_UnparsableIsNoOp ==
  [][(addTurn /\ ~IsFinite(Number(view.currentPoints))) =>
       /\ turns' = turns
       /\ currentPlayerIndex' = currentPlayerIndex
       /\ stage' = stage
       /\ players' = players
       /\ currentPoints' = currentPoints
       /\ currentPoints' = view.currentPoints]_vars

\* addTurn has fired on the text abc, which is still the pending input.
C4_Witness ==
  /\ fired = "addTurn"
  /\ currentPoints = <<"a", "b", "c">>
  /\ Len(players) > 0

\* C5: once the effects of the render that follows resetAll have run, the
\* slot holds no blob.
C5_SlotStaysCleared ==
  (resetDone /\ fired = "none" /\ pending = {} /\ ~startup) => slot = NoBlob

DefaultHooks ==
  /\ stage = "setup"
  /\ players = <<>>
  /\ turns = <<>>
  /\ currentPoints = <<>>
  /\ playerCount = DefaultPlayerCount
  /\ currentPlayerIndex = 0

\* C6: from resetAll until the next handler the six hooks hold their default
\* values, also after the page was loaded again and the load effect has run.
C6_ResetGivesDefaults == resetDone => DefaultHooks

\* After a resetAll the page was loaded again and the load effect has read a
\* blob from the slot.
C6_Witness ==
  /\ resetDone
  /\ startup
  /\ pending = {}
  /\ turnsChanged

SamePlayer(p, q) == p.id = q.id /\ p.name = q.name /\ p.emoji = q.emoji

SameSession(a, b) ==
  /\ a.stage = b.stage
  /\ a.playerCount = b.playerCount
  /\ a.currentPlayerIndex = b.currentPlayerIndex
  /\ Len(a.players) = Len(b.players)
  /\ \A i \in 1 .. Len(a.players) : SamePlayer(a.players[i], b.players[i])
  /\ a.turns = b.turns

\* C7: every snapshot written to the slot, read back by the load effect,
\* gives the stage, roster, log, playerCount and index of the render that
\* wrote it.
C7_RoundTrip ==
  [][(slot' # slot /\ slot' # NoBlob) => SameSession(Loaded(slot'), view)]_vars

\* The load effect of a fresh page has read back a play session of two turns
\* with a renamed player.
C7_Witness ==
  /\ startup
  /\ pending = {}
  /\ turnsChanged
  /\ stage = "play"
  /\ Len(turns) = 2
  /\ currentPlayerIndex = 2
  /\ \E i \in 1 .. Len(players) : players[i].name = "Ann"

\* C8: whenever no effect is pending after an operation, the slot holds the
\* snapshot of the current players, turns, stage, playerCount and index.
C8_SlotIsCurrent ==
  (pending = {} /\ lane # "sync" /\ ~startup) => slot = Stringify(Snapshot)

\* C9: between events each player's cached total is the sum of the points of
\* the turns that reference the player, in the roster and in the snapshot the
\* slot holds.
C9_CachedTotals ==
  (Idle /\ pending = {} /\ ~startup) =>
  /\ \A i \in 1 .. Len(players) : players[i].total = SumPoints(turns, players[i].id)
  /\ slot # NoBlob =>
       \A i \in 1 .. Len(Loaded(slot).players) :
         Loaded(slot).players[i].total
           = SumPoints(Loaded(slot).turns, Loaded(slot).players[i].id)

\* C10: beginNaming makes the roster playerCount players, player i named
\* "Player i" with avatar i of the palette (cyclically) and total 0, and the
\* stage naming.
C10_BeginNaming ==
  fired = "beginNaming" =>
    /\ stage = "naming"
    /\ Len(players) = playerCount
    /\ \A i \in 1 .. Len(players) :
         /\ players[i].name = "Player " \o ToString(i)
         /\ players[i].emoji = EMOJIS[((i - 1) % Len(EMOJIS)) + 1]
         /\ players[i].total = 0

\* beginNaming has replaced a roster of the smallest size by one of the
\* largest.
C10_Witness ==
  /\ fired = "beginNaming"
  /\ Len(view.players) = MinPlayers
  /\ Len(players) = MaxPlayers

\* C11: the ids of the roster are pairwise distinct and the ids of the log are
\* pairwise distinct.
C11_DistinctIds ==
  /\ \A i, j \in 1 .. Len(players) : i # j => players[i].id # players[j].id
  /\ \A i, j \in 1 .. Len(turns) : i # j => turns[i].id # turns[j].id

\* The stage changes a handler makes.
HandlerStageChange ==
  \/ stage = "setup" /\ stage' = "naming" /\ fired' = "beginNaming"
  \/ stage = "naming" /\ stage' = "play" /\ fired' = "startPlaying"
  \/ stage = "naming" /\ stage' = "setup" /\ fired' = "backToSetup"
  \/ stage' = "setup" /\ fired' = "resetAll"

\* C12: within one run of the page the stage changes only from setup to
\* naming by beginNaming, from naming to play by startPlaying, from naming to
\* setup by the Back button, and to setup by resetAll.
C12_StageChanges ==
  [][(stage' # stage /\ "load" \notin pending') => HandlerStageChange]_vars

\* C12 as amended: the same, for every stage change but the one the load
\* effect makes at startup.
C12_StageChangesAfterLoad ==
  [][(stage' # stage /\ "load" \notin pending' /\ "load" \notin pending)
       => HandlerStageChange]_vars

\* resetAll has left stage play for setup.
C12_Witness ==
  /\ fired = "resetAll"
  /\ view.stage = "play"
  /\ Len(view.turns) > 0
  /\ stage = "setup"

\* The hooks after the step hold the value that the stored field k says.
C13_Stored(raw, k) ==
  LET j == raw.obj[k]
  IN CASE k = "players" ->
            /\ j.json = "array"
            /\ Len(players') = Len(j.items)
            /\ \A i \in 1 .. Len(j.items) :
                 /\ JStr(players'[i].id) = j.items[i].obj.id
                 /\ JStr(players'[i].name) = j.items[i].obj.name
                 /\ JStr(players'[i].emoji) = j.items[i].obj.emoji
       [] k = "turns" ->
            /\ j.json = "array"
            /\ Len(turns') = Len(j.items)
            /\ \A i \in 1 .. Len(j.items) : TurnToJson(turns'[i]) = j.items[i]
       [] k = "stage" -> JStr(stage') = j
       [] k = "playerCount" -> JNum(playerCount') = j
       [] k = "currentPlayerIndex" -> JNum(currentPlayerIndex') = j

\* The hooks after the step hold the default of field k.
C13_Default(k) ==
  CASE k = "players" -> players' = <<>>
    [] k = "turns" -> turns' = <<>>
    [] k = "stage" -> stage' = "setup"
    [] k = "playerCount" -> playerCount' = DefaultPlayerCount
    [] k = "currentPlayerIndex" -> currentPlayerIndex' = 0

C13_Fields == {"players", "turns", "stage", "playerCount", "currentPlayerIndex"}

\* The step in which the load effect of a freshly opened page runs.
C13_LoadStep == "load" \in pending /\ pending' = {} /\ slot # NoBlob

\* C13: the load leaves the five hooks at their defaults for an item that
\* cannot be parsed; for an item that parses each missing field takes its
\* default and each present field its stored value.
C13_LoadTakesStored ==
  [][C13_LoadStep =>
       \A k \in C13_Fields :
         IF slot.json = "object" /\ k \in DOMAIN slot.obj /\ slot.obj[k] # JNull
         THEN C13_Stored(slot, k)
         ELSE C13_Default(k)]_vars

\* C13 as amended: a present field whose stored value is 0, the empty text
\* or null takes its default as a missing one does.
C13_LoadFallsBack ==
  [][C13_LoadStep =>
       \A k \in C13_Fields :
         IF /\ slot.json = "object"
            /\ k \in DOMAIN slot.obj
            /\ slot.obj[k] \notin {JNull, JNum(0), JStr("")}
         THEN C13_Stored(slot, k)
         ELSE C13_Default(k)]_vars

\* The load effect has run on an item with a roster, stage play and index 1
\* whose playerCount was missing or 0.
C13_Witness ==
  /\ startup
  /\ pending = {}
  /\ stage = "play"
  /\ Len(players) = 1
  /\ turns = <<>>
  /\ currentPlayerIndex = 1
  /\ playerCount = DefaultPlayerCount

\* A handler has been called in a stage other than the one it belongs to.
C14_OutOfStage ==
  \/ fired' \in {"setPlayerCount", "beginNaming"} /\ view.stage # "setup"
  \/ fired' \in {"updatePlayerEmoji", "startPlaying", "backToSetup"} /\ view.stage # "naming"
  \/ fired' \in {"addTurn", "undoLast"} /\ view.stage # "play"

\* C14: a handler called outside its stage changes no hook, and resetAll can
\* be called in every stage.
C14_StageGuards ==
  [][/\ (lane # "sync" /\ lane' = "sync" /\ C14_OutOfStage) => UNCHANGED hooks
     /\ Interactive => ENABLED resetAll]_vars

\* C15: when addTurn is called twice in succession and both calls record a
\* turn, the second call's turn references the player at the index the first
\* call left, also when no render came between the calls.
C15_SecondAddSeesFirst ==
  [][(fired = "addTurn" /\ fired' = "addTurn" /\ Len(turns) > 0 /\ Len(turns') > Len(turns))
       => turns'[Len(turns')].playerId = players[currentPlayerIndex + 1].id]_vars

\* C16: undoLast removes the last turn of a non-empty log and leaves an empty
\* log empty, and in both cases sets the index to (index - 1) mod roster size.
C16_UndoStepsBack ==
  [][(fired' = "undoLast" /\ lane # "sync" /\ lane' = "sync") =>
       /\ turns' = IF turns = <<>> THEN <<>> ELSE SubSeq(turns, 1, Len(turns) - 1)
       /\ Len(players) > 0 =>
            currentPlayerIndex' = (currentPlayerIndex - 1) % Len(players)]_vars

\* undoLast has run on an empty log and moved the index from the first
\* player to the last.
C16_Witness ==
  /\ fired = "undoLast"
  /\ stage = "play"
  /\ view.turns = <<>>
  /\ turns = <<>>
  /\ view.currentPlayerIndex = 0
  /\ Len(players) > 0
  /\ currentPlayerIndex = Len(players) - 1

\* C17: in stage play with a non-empty roster of n players the index is the
\* length of the log mod n, and turn k of the log (from 0) references the id
\* of player k mod n of the roster.
C17_RoundRobin ==
  (stage = "play" /\ Len(players) > 0) =>
    /\ currentPlayerIndex = Len(turns) % Len(players)
    /\ \A k \in 0 .. Len(turns) - 1 :
         turns[k + 1].playerId = players[(k % Len(players)) + 1].id

\* Two players with different ids have played a full round, so the index has
\* wrapped to the first player.
C17_Witness ==
  /\ stage = "play"
  /\ view.stage = "play"
  /\ Len(players) = 2
  /\ players[1].id # players[2].id
  /\ Len(turns) = 2
  /\ currentPlayerIndex = 0

\* No effect is waiting and no render is scheduled.
Quiet == pending = {} /\ lane = "none"

\* C18: the renders and effects that startup or a handler sets off come to an
\* end: once the user does nothing more, a state is reached from which on no
\* effect is pending and no render is scheduled.
C18_ChainEnds == <>[][Render \/ FlushEffects]_vars => <>[]Quiet

\* C19: addTurn in play on a pending input that is empty or only spaces
\* records no turn and leaves the log and the index as they are.
C19_EmptyInputIsNoOp ==
  [][(addTurn /\ \A i \in 1 .. Len(view.currentPoints) : view.currentPoints[i] = " ") =>
       /\ turns' = turns
       /\ currentPlayerIndex' = currentPlayerIndex]_vars

\* C20: while the load effect of a freshly opened page has not run and the
\* slot holds a session, no step replaces the slot's content by a snapshot of
\* another session: a read of the slot after the step gives what a read before
\* it gave.
C20_StartupKeepsSlot ==
  [][("load" \in pending /\ slot # NoBlob) =>
       /\ slot' # NoBlob
       /\ SameSession(Loaded(slot'), Loaded(slot))]_vars

====
